---- MODULE Spec2Model ----
(***************************************************************************)
(* The Processes component (src/src/app/sites/processes/processes.ts):     *)
(* the process list and its projection, the "Ejecutable" filter, the       *)
(* start-process workflow with its in-flight set, and the edit/patch       *)
(* workflow with its drafts.  HTTP requests are asynchronous: a call       *)
(* issues a request, and its response is a later step of its own.          *)
(***************************************************************************)
EXTENDS Integers, Sequences, FiniteSets, TLC

(***************************************************************************)
(* Bounds of the model.                                                    *)
(***************************************************************************)
\* records in one listing response
MaxList == 2
\* listing requests outstanding at once
MaxLoads == 2
\* listing requests outstanding at once while the editor is exercised
MaxEditLoads == 1
\* patch requests outstanding at once
MaxPatches == 1
\* draft edits the user makes in one run
MaxEdits == 1

(***************************************************************************)
(* JavaScript values.  A primitive is a tagged record, so that values of   *)
(* different types can be compared: null/undefined is NULL, a string s is  *)
(* Str(s), a number n is Num(n), a boolean b is Bool(b).  Every other      *)
(* record is an object.                                                    *)
(***************************************************************************)
NULL == [null |-> TRUE]
NaN == [nan |-> TRUE]
Str(s) == [s |-> s]
Num(n) == [n |-> n]
Bool(b) == [b |-> b]
\* an array that may also be absent; an array that is always there is a sequence
Arr(a) == [a |-> a]

IsStr(v) == DOMAIN v = {"s"}
IsNum(v) == DOMAIN v = {"n"}
IsBool(v) == DOMAIN v = {"b"}

\* x ? ... : ..., !x, !!x : the truthiness of a value
Truthy(v) ==
  IF v = NULL \/ v = NaN THEN FALSE
  ELSE IF IsBool(v) THEN v.b
  ELSE IF IsStr(v) THEN v.s # ""
  ELSE IF IsNum(v) THEN v.n # 0
  ELSE TRUE

\* a ?? b
Coalesce(a, b) == IF a = NULL THEN b ELSE a

\* o?.f : the field of an object, undefined when the object is null/undefined
\* or has no such field
Field(o, f) == IF o = NULL \/ f \notin DOMAIN o THEN NULL ELSE o[f]

\* the decimal digits of a small natural number
Digits(n) ==
  CASE n = 0 -> "0" [] n = 1 -> "1" [] n = 2 -> "2" [] n = 3 -> "3"
    [] n = 42 -> "42" [] OTHER -> "?"

\* String(v)
String(v) ==
  IF v = NULL THEN "null"
  ELSE IF v = NaN THEN "NaN"
  ELSE IF IsStr(v) THEN v.s
  ELSE IF IsNum(v) THEN Digits(v.n)
  ELSE IF IsBool(v) THEN (IF v.b THEN "true" ELSE "false")
  ELSE "[object Object]"

\* s.toLowerCase(), on the strings the model uses
toLowerCase(s) ==
  CASE s = "Webhook" -> "webhook"
    [] s = "WEBHOOK" -> "webhook"
    [] s = "webhook" -> "webhook"
    [] s = "Other" -> "other"
    [] OTHER -> s

\* Number(v): the numeric coercion, NaN when the value is not numeric
Number(v) ==
  IF v = NULL THEN NaN
  ELSE IF IsNum(v) THEN v
  ELSE IF IsBool(v) THEN (IF v.b THEN Num(1) ELSE Num(0))
  ELSE IF IsStr(v) THEN
    (CASE v.s = "42" -> Num(42)
       [] v.s = "0" -> Num(0)
       [] v.s = "" -> Num(0)
       [] OTHER -> NaN)
  ELSE NaN

\* isNaN(v), on a value Number returned
isNaN(v) == v = NaN

(***************************************************************************)
(* Object identity.  Every record of the list and every parameter object   *)
(* carries the address of the JavaScript object it is (oid): two holders   *)
(* of the same oid hold the same object, and an assignment to a field of   *)
(* that object is seen through both.  A copy ({ ...p }) is a new object:   *)
(* it takes the smallest address no live object has.                       *)
(***************************************************************************)
NthFree(used, k) ==
  CHOOSE x \in 1..(Cardinality(used) + k) :
    /\ x \notin used
    /\ Cardinality({y \in 1..x : y \notin used}) = k

ParamOids(params) == {params[i].oid : i \in DOMAIN params}
RecordOids(rec) ==
  IF rec = NULL THEN {} ELSE {rec.oid} \cup ParamOids(rec.parameters)
ListOids(list) == UNION {RecordOids(list[i]) : i \in DOMAIN list}

\* params.map(p => ({ ...p })) : a copy of every parameter object
CopyParams(params, used) ==
  [i \in DOMAIN params |-> [params[i] EXCEPT !.oid = NthFree(used, i)]]

\* the same values, whatever the objects
ParamValues(params) ==
  [i \in DOMAIN params |->
     [name |-> params[i].name, type |-> params[i].type, value |-> params[i].value]]
RecordValues(rec) ==
  IF rec = NULL THEN NULL
  ELSE [ id |-> rec.id, name |-> rec.name, workflowName |-> rec.workflowName,
         description |-> rec.description, parameters |-> ParamValues(rec.parameters),
         active |-> rec.active, status |-> rec.status, startedAt |-> rec.startedAt,
         canExecute |-> rec.canExecute ]
ListValues(list) == [i \in DOMAIN list |-> RecordValues(list[i])]

(***************************************************************************)
(* Addresses are arbitrary: two states that differ only in them are one    *)
(* state of the program.  Every step that creates or drops objects ends by *)
(* numbering the live objects in the order the component reaches them:     *)
(* the list, the selected record, the drafts, the pending patch bodies.    *)
(***************************************************************************)
RECURSIVE Flatten(_)
Flatten(seqs) == IF seqs = <<>> THEN <<>> ELSE Head(seqs) \o Flatten(Tail(seqs))

ParamOidSeq(params) == [i \in DOMAIN params |-> params[i].oid]
RecordOidSeq(rec) ==
  IF rec = NULL THEN <<>> ELSE <<rec.oid>> \o ParamOidSeq(rec.parameters)

OidOrder(list, selected, draft, draftParams, patches) ==
  Flatten([i \in DOMAIN list |-> RecordOidSeq(list[i])])
    \o RecordOidSeq(selected) \o RecordOidSeq(draft) \o ParamOidSeq(draftParams)
    \o Flatten([k \in DOMAIN patches |-> ParamOidSeq(patches[k].body.parameters)])

\* the number of the object o: how many distinct objects are reached up to it
Rank(order, o) ==
  LET first == CHOOSE j \in DOMAIN order :
                 order[j] = o /\ \A k \in 1..(j - 1) : order[k] # o
  IN Cardinality({order[k] : k \in 1..first})

NumberParams(params, order) ==
  [i \in DOMAIN params |-> [params[i] EXCEPT !.oid = Rank(order, @)]]
NumberRecord(rec, order) ==
  IF rec = NULL THEN NULL
  ELSE [rec EXCEPT !.oid = Rank(order, @),
                   !.parameters = NumberParams(@, order)]

(***************************************************************************)
(* What the backend may answer to getProcesses(): sequences of at most     *)
(* MaxList raw records with distinct ids.                                  *)
(***************************************************************************)
RawA ==
  [ id |-> Num(1), name |-> Str("A"), description |-> Str("dA"),
    workflow |-> [ name |-> Str("wfA"), active |-> Bool(TRUE),
                   tags |-> Arr(<<[name |-> Str("Webhook")]>>) ],
    parameters |-> Arr(<<[name |-> Str("p"), type |-> Str("number"), value |-> Str("42")]>>),
    executionBrief |-> [status |-> Str("success"), startedAt |-> Str("t1")] ]
RawB ==
  [ id |-> Num(2), name |-> Str("B"), description |-> Str("dB"),
    workflow |-> NULL, parameters |-> NULL, executionBrief |-> NULL ]
RawZ ==
  [ id |-> Num(0), name |-> Str("Z"), description |-> Str("dZ"),
    workflow |-> [ name |-> NULL, active |-> Bool(FALSE),
                   tags |-> Arr(<<NULL, [name |-> Str("WEBHOOK")]>>) ],
    parameters |-> Arr(<<>>), executionBrief |-> [status |-> NULL, startedAt |-> NULL] ]
RawRecords == {RawA, RawB, RawZ}

ListsOver(records) ==
  UNION { { s \in [1..n -> records] :
              \A i, j \in 1..n : i # j => s[i].id # s[j].id } : n \in 0..MaxList }
RawLists == ListsOver(RawRecords)

\* the workflows a raw record may carry, each under the name of its case
TagWorkflows ==
  { <<"none", NULL>>,
    <<"notags", [name |-> Str("wf"), active |-> Bool(TRUE), tags |-> NULL]>>,
    <<"empty", [name |-> Str("wf"), active |-> Bool(TRUE), tags |-> Arr(<<>>)]>>,
    <<"text", [name |-> Str("wf"), active |-> Bool(TRUE), tags |-> Str("Webhook")]>>,
    <<"lower", [name |-> Str("wf"), active |-> Bool(TRUE),
                tags |-> Arr(<<[name |-> Str("webhook")]>>)]>>,
    <<"title", [name |-> Str("wf"), active |-> Bool(TRUE),
                tags |-> Arr(<<[name |-> Str("Other")], [name |-> Str("Webhook")]>>)]>>,
    <<"upper", [name |-> Str("wf"), active |-> Bool(FALSE),
                tags |-> Arr(<<[name |-> Str("WEBHOOK")]>>)]>>,
    <<"other", [name |-> Str("wf"), active |-> Bool(TRUE),
                tags |-> Arr(<<[name |-> Str("Other")], [name |-> Str("Webhooks")],
                               [name |-> Num(1)]>>)]>>,
    <<"noname", [name |-> Str("wf"), active |-> Bool(TRUE),
                 tags |-> Arr(<<NULL, [id |-> Num(3)], [name |-> NULL]>>)]>> }

\* the raw records that carry them, under two ids
TagRecords ==
  { [ id |-> Num(i), name |-> Str(w[1]), description |-> Str("d"),
      workflow |-> w[2], parameters |-> NULL, executionBrief |-> NULL ] :
    i \in 1..2, w \in TagWorkflows }
TagLists == ListsOver(TagRecords)

\* the id strings a start request can carry
IdStrings == {String(r.id) : r \in RawRecords}

(***************************************************************************)
(* The state of the component, the requests in flight, and the outputs of  *)
(* the last step.                                                          *)
(***************************************************************************)
VARIABLES
  phase,               \* "constructed" until ngOnInit has run, then "ready"
  processes,           \* this.processes
  loading,             \* this.loading
  error,               \* this.error
  showOnlyExecutable,  \* this.showOnlyExecutable
  startingProcessIds,  \* this.startingProcessIds
  selectedProcess,     \* this.selectedProcess
  editedProcess,       \* this.editedProcess
  editedParameters,    \* this.editedParameters
  listRequests,        \* getProcesses() requests not yet answered
  startRequests,       \* startProcess(id) requests not yet answered, per id
  patchRequests,       \* patchProcess(id, body) requests not yet answered
  snackBar,            \* the notifications the last step opened
  last,                \* the handler the last step ran, and what it did
  opened,              \* the selected record as it was when selectProcess ran
  edits,               \* draft edits made so far
  listed,              \* the listing response that arrived most recently
  now,                 \* Date.now(), in milliseconds
  timeAgo              \* what the last call of formatTimeAgo returned

component ==
  <<processes, loading, error, showOnlyExecutable, startingProcessIds,
    selectedProcess, editedProcess, editedParameters>>
requests == <<listRequests, startRequests, patchRequests>>
vars == <<phase, component, requests, snackBar, last, opened, edits, listed, now, timeAgo>>

\* the handler the last step ran; id is the id string it was about ("" when
\* it is about none) and flag what it did: startProcess sent a request,
\* the start response asked for a reload, the listing response replaced a
\* patched record, cancelEdit dropped changed drafts, the patch response threw
Op(name, id, flag) == [op |-> name, id |-> id, flag |-> flag]

Init ==
  /\ phase = "constructed"
  /\ processes = <<>>
  /\ loading = FALSE
  /\ error = NULL
  /\ showOnlyExecutable = FALSE
  /\ startingProcessIds = {}
  /\ selectedProcess = NULL
  /\ editedProcess = NULL
  /\ editedParameters = <<>>
  /\ listRequests = 0
  /\ startRequests = [id \in IdStrings |-> 0]
  /\ patchRequests = <<>>
  /\ snackBar = <<>>
  /\ last = Op("constructor", "", FALSE)
  /\ opened = NULL
  /\ edits = 0
  /\ listed = <<>>
  /\ now = 0
  /\ timeAgo = NULL

\* the objects the component or a pending callback holds
LiveOids ==
  ListOids(processes) \cup RecordOids(selectedProcess) \cup RecordOids(editedProcess)
    \cup ParamOids(editedParameters)
    \cup UNION {ParamOids(patchRequests[i].body.parameters) : i \in DOMAIN patchRequests}

\* the fields that hold objects take these values, the objects numbered anew
Commit(list, selected, draft, draftParams, patches) ==
  LET order == OidOrder(list, selected, draft, draftParams, patches) IN
  /\ processes' = [i \in DOMAIN list |-> NumberRecord(list[i], order)]
  /\ selectedProcess' = NumberRecord(selected, order)
  /\ editedProcess' = NumberRecord(draft, order)
  /\ editedParameters' = NumberParams(draftParams, order)
  /\ patchRequests' =
       [k \in DOMAIN patches |->
          [patches[k] EXCEPT !.body.parameters = NumberParams(@, order)]]

(***************************************************************************)
(* loadProcesses and its response                                          *)
(***************************************************************************)
loadProcesses_dedup ==
  listRequests' = IF listRequests > 0 THEN listRequests ELSE listRequests + 1

\* loadProcesses(): one more getProcesses() request
loadProcesses == listRequests' = listRequests + 1

SomeWebhook_exact(tags) ==
  \E i \in DOMAIN tags.a :
    String(Coalesce(Field(tags.a[i], "name"), Str(""))) = "webhook"

\* p.workflow.tags.some(t => (t?.name ?? '').toString().toLowerCase() === 'webhook')
SomeWebhook(tags) ==
  \E i \in DOMAIN tags.a :
    toLowerCase(String(Coalesce(Field(tags.a[i], "name"), Str("")))) = "webhook"

\* !!p.workflow?.tags && Array.isArray(p.workflow.tags) && p.workflow.tags.some(...)
CanExecute(p) ==
  LET tags == Field(p.workflow, "tags") IN
  /\ Truthy(tags)
  /\ DOMAIN tags = {"a"}
  /\ SomeWebhook(tags)

\* the record res.map builds from one raw record; the record is a new object,
\* its parameters are the objects of the response
Project(p, used) ==
  LET raw == Coalesce(p.parameters, Arr(<<>>)).a IN
  [ oid |-> NthFree(used, 1),
    id |-> p.id,
    name |-> p.name,
    workflowName |-> Coalesce(Field(p.workflow, "name"), Str("")),
    description |-> p.description,
    parameters |->
      [i \in DOMAIN raw |->
         [ oid |-> NthFree(used, 1 + i), name |-> raw[i].name,
           type |-> raw[i].type, value |-> raw[i].value ]],
    active |-> IF Truthy(Field(p.workflow, "active"))
               THEN Str("Proceso Activo") ELSE Str("Proceso Inactivo"),
    status |-> Coalesce(Field(p.executionBrief, "status"), Str("")),
    startedAt |-> Coalesce(Field(p.executionBrief, "startedAt"), NULL),
    canExecute |-> CanExecute(p) ]

RECURSIVE ProjectAll(_, _)
ProjectAll(res, used) ==
  IF res = <<>> THEN <<>>
  ELSE LET rec == Project(Head(res), used)
       IN <<rec>> \o ProjectAll(Tail(res), used \cup RecordOids(rec))

ngOnInit ==
  /\ phase = "constructed"
  /\ phase' = "ready"
  /\ loadProcesses
  /\ snackBar' = <<>>
  /\ last' = Op("ngOnInit", "", FALSE)
  /\ UNCHANGED <<component, startRequests, patchRequests, opened, edits>>
  /\ UNCHANGED <<listed, now, timeAgo>>

ListNext_appends(res) ==
  /\ listRequests > 0
  /\ listRequests' = listRequests - 1
  /\ Len(processes) + Len(res) <= MaxList + 1
  /\ Commit(processes \o ProjectAll(res, LiveOids), selectedProcess, editedProcess,
            editedParameters, patchRequests)
  /\ snackBar' = <<>>
  /\ last' = Op("listNext", "", FALSE)
  /\ UNCHANGED <<phase, loading, error, showOnlyExecutable, startingProcessIds,
                 startRequests, opened, edits>>
  /\ listed' = res
  /\ UNCHANGED <<now, timeAgo>>

\* the next callback of loadProcesses, on the response res
ListNext(res) ==
  /\ listRequests > 0
  /\ listRequests' = listRequests - 1
  /\ Commit(ProjectAll(res, LiveOids), selectedProcess, editedProcess,
            editedParameters, patchRequests)
  /\ snackBar' = <<>>
  /\ last' = Op("listNext", "",
                \E i \in DOMAIN processes :
                  /\ \A raw \in RawRecords :
                       RecordValues(processes[i]) # RecordValues(Project(raw, {}))
                  /\ \E j \in DOMAIN res : res[j].id = processes[i].id)
  /\ UNCHANGED <<phase, loading, error, showOnlyExecutable, startingProcessIds,
                 startRequests, opened, edits>>
  /\ listed' = res
  /\ UNCHANGED <<now, timeAgo>>

\* a listing request that fails: loadProcesses subscribes no error callback
ListError ==
  /\ listRequests > 0
  /\ listRequests' = listRequests - 1
  /\ snackBar' = <<>>
  /\ last' = Op("listError", "", FALSE)
  /\ UNCHANGED <<phase, component, startRequests, patchRequests, opened, edits>>
  /\ UNCHANGED <<listed, now, timeAgo>>

(***************************************************************************)
(* The filter                                                              *)
(***************************************************************************)
displayedProcesses_all == processes

\* get displayedProcesses(); this.processes is always an array, so the
\* !this.processes branch is never taken
displayedProcesses ==
  IF ~showOnlyExecutable THEN processes
  ELSE SelectSeq(processes, LAMBDA p : p.canExecute)

toggleEjecutable ==
  /\ phase = "ready"
  /\ showOnlyExecutable' = ~showOnlyExecutable
  /\ snackBar' = <<>>
  /\ last' = Op("toggleEjecutable", "", FALSE)
  /\ UNCHANGED <<phase, processes, loading, error, startingProcessIds,
                 selectedProcess, editedProcess, editedParameters,
                 requests, opened, edits>>
  /\ UNCHANGED <<listed, now, timeAgo>>

(***************************************************************************)
(* The starter                                                             *)
(***************************************************************************)
\* what the backend may answer to startProcess(id)
StartResults ==
  { NULL,
    [success |-> Bool(TRUE), message |-> Str("ok")],
    [success |-> Bool(TRUE), message |-> NULL],
    [success |-> Bool(FALSE), message |-> Str("rejected")],
    [success |-> Bool(FALSE), message |-> NULL],
    [message |-> Str("queued")] }

\* the errors a start request may fail with
StartErrors ==
  { NULL,
    [error |-> [message |-> Str("body")], message |-> Str("http"), statusText |-> Str("st")],
    [error |-> NULL, message |-> Str("http"), statusText |-> Str("st")],
    [error |-> Str("text"), message |-> NULL, statusText |-> Str("st")],
    [status |-> Num(0)] }

\* isStarting(process)
isStarting(process) ==
  IF ~Truthy(process) THEN FALSE
  ELSE String(process.id) \in startingProcessIds

\* if (!process || !process.id) return;
StartGuard(process) == Truthy(process) /\ Truthy(process.id)

AlreadyStarting_never(id) == FALSE

\* if (this.startingProcessIds.has(id)) return;
AlreadyStarting(id) == id \in startingProcessIds

DeleteStarting_kept(ids, id) == ids

\* this.startingProcessIds.delete(id)
DeleteStarting(ids, id) == ids \ {id}

\* startProcess(process)
startProcess(process) ==
  /\ phase = "ready"
  /\ snackBar' = <<>>
  /\ IF StartGuard(process) /\ ~AlreadyStarting(String(process.id))
     THEN LET id == String(process.id) IN
          /\ startingProcessIds' = startingProcessIds \cup {id}
          /\ startRequests' = [startRequests EXCEPT ![id] = @ + 1]
          /\ last' = Op("startProcess", id, TRUE)
     ELSE /\ UNCHANGED <<startingProcessIds, startRequests>>
          /\ last' = Op("startProcess", String(Field(process, "id")), FALSE)
  /\ UNCHANGED <<phase, processes, loading, error, showOnlyExecutable,
                 selectedProcess, editedProcess, editedParameters,
                 listRequests, patchRequests, opened, edits>>
  /\ UNCHANGED <<listed, now, timeAgo>>

DisplayMessage_message(res) ==
  Coalesce(Field(res, "message"),
           IF Truthy(Field(res, "success")) THEN Str("Proceso iniciado")
           ELSE Str("Error al iniciar proceso"))

\* res?.message ?? (res?.success ? 'Proceso iniciado' : 'No se pudo iniciar el proceso')
DisplayMessage(res) ==
  Coalesce(Field(res, "message"),
           IF Truthy(Field(res, "success")) THEN Str("Proceso iniciado")
           ELSE Str("No se pudo iniciar el proceso"))

\* err?.error?.message ?? err?.message ?? err?.statusText ?? 'Error de red'
\* (the message of a string body is undefined)
ErrMsg(err) ==
  LET body == Field(err, "error")
      bodyMsg == IF IsStr(body) THEN NULL ELSE Field(body, "message")
  IN Coalesce(bodyMsg,
       Coalesce(Field(err, "message"),
         Coalesce(Field(err, "statusText"), Str("Error de red"))))

ReloadOnSuccess_always(res) == TRUE

\* if (res?.success) this.loadProcesses()
ReloadOnSuccess(res) == Truthy(Field(res, "success"))

\* the next callback of startProcess(id), on the response res.  A response that
\* reloads waits while maxLoads listing requests are outstanding.
StartNext(id, res, maxLoads) ==
  /\ startRequests[id] > 0
  /\ startRequests' = [startRequests EXCEPT ![id] = @ - 1]
  /\ snackBar' = <<DisplayMessage(res)>>
  /\ startingProcessIds' = DeleteStarting(startingProcessIds, id)
  /\ IF ReloadOnSuccess(res)
     THEN listRequests < maxLoads /\ loadProcesses
     ELSE UNCHANGED listRequests
  /\ last' = Op("startNext", id, ReloadOnSuccess(res))
  /\ UNCHANGED <<phase, processes, loading, error, showOnlyExecutable,
                 selectedProcess, editedProcess, editedParameters,
                 patchRequests, opened, edits>>
  /\ UNCHANGED <<listed, now, timeAgo>>

StartError_marked(id, err) ==
  /\ startRequests[id] > 0
  /\ startRequests' = [startRequests EXCEPT ![id] = @ - 1]
  /\ snackBar' = <<ErrMsg(err)>>
  /\ last' = Op("startError", id, FALSE)
  /\ UNCHANGED <<phase, component, listRequests, patchRequests, opened, edits>>
  /\ UNCHANGED <<listed, now, timeAgo>>

\* the error callback of startProcess(id), on the error err
StartError(id, err) ==
  /\ startRequests[id] > 0
  /\ startRequests' = [startRequests EXCEPT ![id] = @ - 1]
  /\ snackBar' = <<ErrMsg(err)>>
  /\ startingProcessIds' = DeleteStarting(startingProcessIds, id)
  /\ last' = Op("startError", id, FALSE)
  /\ UNCHANGED <<phase, processes, loading, error, showOnlyExecutable,
                 selectedProcess, editedProcess, editedParameters,
                 listRequests, patchRequests, opened, edits>>
  /\ UNCHANGED <<listed, now, timeAgo>>

(***************************************************************************)
(* The editor                                                              *)
(***************************************************************************)
\* { ...process } : a new object with the fields of process (the parameters
\* field is the same array, holding the same parameter objects)
SpreadRecord(process, used) == [process EXCEPT !.oid = NthFree(used, 1)]

SelectParameters_shared(process, used) == process.parameters

\* (process.parameters || []).map((p: any) => ({ ...p })) in selectProcess
SelectParameters(process, used) == CopyParams(process.parameters, used)

\* selectProcess(process)
selectProcess(process) ==
  LET draft == SpreadRecord(process, LiveOids) IN
  /\ phase = "ready"
  /\ Commit(processes, process, draft,
            SelectParameters(process, LiveOids \cup {draft.oid}), patchRequests)
  /\ opened' = RecordValues(process)
  /\ snackBar' = <<>>
  /\ last' = Op("selectProcess", "", FALSE)
  /\ UNCHANGED <<phase, loading, error, showOnlyExecutable,
                 startingProcessIds, listRequests, startRequests, edits>>
  /\ UNCHANGED <<listed, now, timeAgo>>

\* an assignment o.f = v to the record object o, seen by every holder of it
AssignRecord(rec, o, f, v) ==
  IF rec # NULL /\ rec.oid = o THEN [rec EXCEPT ![f] = v] ELSE rec

\* an assignment o.f = v to the parameter object o, seen by every holder of it
AssignParams(params, o, f, v) ==
  [i \in DOMAIN params |->
     IF params[i].oid = o THEN [params[i] EXCEPT ![f] = v] ELSE params[i]]
AssignParamsOf(rec, o, f, v) ==
  IF rec = NULL THEN NULL
  ELSE [rec EXCEPT !.parameters = AssignParams(@, o, f, v)]

\* what the user may type in the edit form
EditNames == {Str("A2")}
EditDescriptions == {Str("dA2")}
EditParamFields ==
  { <<"name", Str("q")>>, <<"type", Str("text")>>, <<"type", Str("number")>>,
    <<"value", Str("abc")>>, <<"value", Str("42")>> }

\* the edit form, bound to editedProcess: editedProcess[f] = v for f the name
\* or the description
EditProcess(f, v) ==
  /\ phase = "ready"
  /\ Truthy(editedProcess)
  /\ edits < MaxEdits
  /\ editedProcess[f] # v
  /\ LET o == editedProcess.oid IN
     Commit([i \in DOMAIN processes |-> AssignRecord(processes[i], o, f, v)],
            AssignRecord(selectedProcess, o, f, v),
            AssignRecord(editedProcess, o, f, v),
            editedParameters, patchRequests)
  /\ edits' = edits + 1
  /\ snackBar' = <<>>
  /\ last' = Op("edit", "", FALSE)
  /\ UNCHANGED <<phase, loading, error, showOnlyExecutable, startingProcessIds,
                 listRequests, startRequests, opened>>
  /\ UNCHANGED <<listed, now, timeAgo>>

\* the edit form, bound to editedParameters: editedParameters[i][f] = v for f
\* the name, the type or the value
EditParameter(i, f, v) ==
  /\ phase = "ready"
  /\ Truthy(editedProcess)
  /\ edits < MaxEdits
  /\ i \in DOMAIN editedParameters
  /\ editedParameters[i][f] # v
  /\ LET o == editedParameters[i].oid IN
     Commit([k \in DOMAIN processes |-> AssignParamsOf(processes[k], o, f, v)],
            AssignParamsOf(selectedProcess, o, f, v),
            AssignParamsOf(editedProcess, o, f, v),
            AssignParams(editedParameters, o, f, v),
            [k \in DOMAIN patchRequests |->
               [patchRequests[k] EXCEPT !.body.parameters = AssignParams(@, o, f, v)]])
  /\ edits' = edits + 1
  /\ snackBar' = <<>>
  /\ last' = Op("edit", "", FALSE)
  /\ UNCHANGED <<phase, loading, error, showOnlyExecutable, startingProcessIds,
                 listRequests, startRequests, opened>>
  /\ UNCHANGED <<listed, now, timeAgo>>

CancelParameters_shared(process, used) == process.parameters

\* (this.selectedProcess.parameters || []).map((p: any) => ({ ...p })) in cancelEdit
CancelParameters(process, used) == CopyParams(process.parameters, used)

cancelEdit_keepsDraft ==
  /\ phase = "ready"
  /\ snackBar' = <<>>
  /\ IF ~Truthy(selectedProcess)
     THEN /\ UNCHANGED <<processes, editedParameters, editedProcess, selectedProcess,
                         patchRequests, opened>>
          /\ last' = Op("cancelEdit", "", FALSE)
     ELSE /\ last' = Op("cancelEdit", String(selectedProcess.id), FALSE)
          /\ Commit(processes, NULL, editedProcess,
                    CancelParameters(selectedProcess, LiveOids), patchRequests)
          /\ opened' = NULL
  /\ UNCHANGED <<phase, loading, error, showOnlyExecutable,
                 startingProcessIds, listRequests, startRequests, edits>>
  /\ UNCHANGED <<listed, now, timeAgo>>

\* cancelEdit()
cancelEdit ==
  /\ phase = "ready"
  /\ snackBar' = <<>>
  /\ IF ~Truthy(selectedProcess)
     THEN /\ UNCHANGED <<processes, editedParameters, editedProcess, selectedProcess,
                         patchRequests, opened>>
          /\ last' = Op("cancelEdit", "", FALSE)
     ELSE /\ last' = Op("cancelEdit", String(selectedProcess.id),
                        \/ ParamValues(editedParameters)
                             # ParamValues(selectedProcess.parameters)
                        \/ editedProcess.name # selectedProcess.name
                        \/ editedProcess.description # selectedProcess.description)
          /\ Commit(processes, NULL, NULL,
                    CancelParameters(selectedProcess, LiveOids), patchRequests)
          /\ opened' = NULL
  /\ UNCHANGED <<phase, loading, error, showOnlyExecutable,
                 startingProcessIds, listRequests, startRequests, edits>>
  /\ UNCHANGED <<listed, now, timeAgo>>

NormalizeParameter_any(p, o) ==
  LET copy == [p EXCEPT !.oid = o]
      n == Number(copy.value)
  IN [copy EXCEPT !.value = IF isNaN(n) THEN copy.value ELSE n]

\* one parameter of paramsToSend: a copy (a new object o), its value coerced
\* to a number when its type is 'number' and the coercion succeeds
NormalizeParameter(p, o) ==
  LET copy == [p EXCEPT !.oid = o]
      n == Number(copy.value)
  IN IF copy.type = Str("number")
     THEN [copy EXCEPT !.value = IF isNaN(n) THEN copy.value ELSE n]
     ELSE copy

\* const paramsToSend = this.editedParameters.map(...)
ParamsToSend(params, used) ==
  [i \in DOMAIN params |-> NormalizeParameter(params[i], NthFree(used, i))]

\* the body of the patch request
PatchBody(draft, paramsToSend) ==
  [name |-> draft.name, description |-> draft.description, parameters |-> paramsToSend]

\* updateSelectedProcess().  A call that sends waits while MaxPatches patch
\* requests are outstanding.
updateSelectedProcess ==
  /\ phase = "ready"
  /\ snackBar' = <<>>
  /\ IF ~Truthy(selectedProcess)
     THEN /\ UNCHANGED <<processes, selectedProcess, editedProcess, editedParameters,
                         patchRequests>>
          /\ last' = Op("updateSelectedProcess", "", FALSE)
     ELSE /\ Len(patchRequests) < MaxPatches
          /\ last' = Op("updateSelectedProcess", String(selectedProcess.id), TRUE)
          /\ Commit(processes, selectedProcess, editedProcess, editedParameters,
               Append(patchRequests,
                 [ id |-> String(selectedProcess.id),
                   body |-> PatchBody(editedProcess,
                                      ParamsToSend(editedParameters, LiveOids)) ]))
  /\ UNCHANGED <<phase, loading, error, showOnlyExecutable, startingProcessIds,
                 listRequests, startRequests, opened, edits>>
  /\ UNCHANGED <<listed, now, timeAgo>>

RemoveAt(seq, k) == [i \in 1..(Len(seq) - 1) |-> IF i < k THEN seq[i] ELSE seq[i + 1]]

\* this.processes.findIndex(p => p.id === this.selectedProcess.id), 0 when
\* there is none; evaluated only when the callback does not throw
FindIndex ==
  LET hits == {i \in DOMAIN processes : processes[i].id = selectedProcess.id}
  IN IF hits = {} THEN 0 ELSE CHOOSE i \in hits : \A j \in hits : i <= j

\* the callback of findIndex reads this.selectedProcess.id: with no selected
\* process and a record to test, it throws a TypeError
PatchNextThrows == selectedProcess = NULL /\ processes # <<>>

\* { ...this.processes[idx], name: body.name, description: body.description,
\*   parameters: paramsToSend }
Merged(rec, body, used) ==
  [rec EXCEPT !.oid = NthFree(used, 1), !.name = body.name,
              !.description = body.description, !.parameters = body.parameters]

\* the next callback of the k-th outstanding patch request
PatchNext(k) ==
  /\ k \in DOMAIN patchRequests
  /\ snackBar' = <<>>
  /\ last' = Op("patchNext", patchRequests[k].id, PatchNextThrows)
  /\ IF PatchNextThrows
     THEN /\ Commit(processes, selectedProcess, editedProcess, editedParameters,
                    RemoveAt(patchRequests, k))
          /\ UNCHANGED opened
     ELSE /\ Commit(IF processes = <<>> \/ FindIndex = 0 THEN processes
                    ELSE [processes EXCEPT ![FindIndex] =
                            Merged(@, patchRequests[k].body, LiveOids)],
                    NULL, NULL, <<>>, RemoveAt(patchRequests, k))
          /\ opened' = NULL
  /\ UNCHANGED <<phase, loading, error, showOnlyExecutable, startingProcessIds,
                 listRequests, startRequests, edits>>
  /\ UNCHANGED <<listed, now, timeAgo>>

PatchError_closes(k) ==
  /\ k \in DOMAIN patchRequests
  /\ Commit(processes, NULL, NULL, <<>>, RemoveAt(patchRequests, k))
  /\ opened' = NULL
  /\ snackBar' = <<>>
  /\ last' = Op("patchError", patchRequests[k].id, FALSE)
  /\ UNCHANGED <<phase, loading, error, showOnlyExecutable, startingProcessIds,
                 listRequests, startRequests, edits>>
  /\ UNCHANGED <<listed, now, timeAgo>>

\* the error callback of the k-th outstanding patch request
PatchError(k) ==
  /\ k \in DOMAIN patchRequests
  /\ Commit(processes, selectedProcess, editedProcess, editedParameters,
            RemoveAt(patchRequests, k))
  /\ snackBar' = <<>>
  /\ last' = Op("patchError", patchRequests[k].id, FALSE)
  /\ UNCHANGED <<phase, loading, error, showOnlyExecutable, startingProcessIds,
                 listRequests, startRequests, opened, edits>>
  /\ UNCHANGED <<listed, now, timeAgo>>

(***************************************************************************)
(* The time-ago formatter.  An ISO date string that parses is the record   *)
(* [t |-> ms] of the time value it parses to; any other string does not    *)
(* parse.                                                                  *)
(***************************************************************************)
\* the timestamps a record may carry in startedAt
IsoDates ==
  { NULL, Str(""), Str("invalid"),
    [t |-> 0], [t |-> 500], [t |-> 30000], [t |-> 3600000] }

\* the values Date.now() takes
Nows ==
  { 0, 999, 1000, 59999, 60000, 90000, 3599999, 3600000, 3630000,
    86399999, 86400000, 90000000, 172800000 }

\* new Date(isoDate).getTime(): NaN for a string that does not parse
getTime(isoDate) == IF DOMAIN isoDate = {"t"} THEN Num(isoDate.t) ELSE NaN

formatTimeAgo_inclusive(isoDate) ==
  IF ~Truthy(isoDate) THEN ""
  ELSE LET then == getTime(isoDate) IN
       IF then = NaN THEN "Hace NaN d"
       ELSE LET diff == (now - then.n) \div 1000
                mins == diff \div 60
                hours == mins \div 60
                days == hours \div 24
            IN IF diff <= 60 THEN "Hace " \o ToString(diff) \o " seg"
               ELSE IF mins <= 60 THEN "Hace " \o ToString(mins) \o " min"
               ELSE IF hours <= 24 THEN "Hace " \o ToString(hours) \o " h"
               ELSE "Hace " \o ToString(days) \o " d"

\* formatTimeAgo(isoDate); with then NaN every comparison is false and the
\* last template renders NaN
formatTimeAgo(isoDate) ==
  IF ~Truthy(isoDate) THEN ""
  ELSE LET then == getTime(isoDate) IN
       IF then = NaN THEN "Hace NaN d"
       ELSE LET diff == (now - then.n) \div 1000
                mins == diff \div 60
                hours == mins \div 60
                days == hours \div 24
            IN IF diff < 60 THEN "Hace " \o ToString(diff) \o " seg"
               ELSE IF mins < 60 THEN "Hace " \o ToString(mins) \o " min"
               ELSE IF hours < 24 THEN "Hace " \o ToString(hours) \o " h"
               ELSE "Hace " \o ToString(days) \o " d"

\* a call formatTimeAgo(isoDate)
TimeAgo(isoDate) ==
  /\ timeAgo' = Str(formatTimeAgo(isoDate))
  /\ snackBar' = <<>>
  /\ last' = Op("formatTimeAgo", "", isoDate = NULL)
  /\ UNCHANGED <<phase, component, requests, opened, edits, listed, now>>

\* time passes: Date.now() takes a later value
Tick ==
  /\ \E t \in Nows : t > now /\ now' = t
  /\ snackBar' = <<>>
  /\ last' = Op("tick", "", FALSE)
  /\ UNCHANGED <<phase, component, requests, opened, edits, listed, timeAgo>>

(***************************************************************************)
(* The component: the user's events and the responses, in any order.       *)
(***************************************************************************)
Records == {processes[i] : i \in DOMAIN processes}

\* the events of the loader
LoaderStep(lists) ==
  \/ ngOnInit
  \/ \E res \in lists : ListNext(res)
  \/ ListError

\* the events of the starter
StarterStep ==
  \/ \E process \in Records \cup {NULL} : startProcess(process)
  \/ \E id \in IdStrings, res \in StartResults : StartNext(id, res, MaxLoads)
  \/ \E id \in IdStrings, err \in StartErrors : StartError(id, err)

\* the events of the editor
EditorStep ==
  \/ \E process \in Records : selectProcess(process)
  \/ \E v \in EditNames : EditProcess("name", v)
  \/ \E v \in EditDescriptions : EditProcess("description", v)
  \/ \E i \in 1..MaxList, e \in EditParamFields : EditParameter(i, e[1], e[2])
  \/ cancelEdit
  \/ updateSelectedProcess
  \/ \E k \in 1..MaxPatches : PatchNext(k)
  \/ \E k \in 1..MaxPatches : PatchError(k)

\* the formatter's calls, while time passes
TimeStep ==
  \/ Tick
  \/ \E isoDate \in IsoDates : TimeAgo(isoDate)

Next ==
  \/ LoaderStep(RawLists)
  \/ toggleEjecutable
  \/ StarterStep
  \/ EditorStep
  \/ TimeStep

Spec == Init /\ [][Next]_vars

\* the loader, the filter and the starter: no edit session is opened
NextStart ==
  \/ LoaderStep(RawLists)
  \/ toggleEjecutable
  \/ StarterStep

SpecStart == Init /\ [][NextStart]_vars

\* the loader and the editor; the list is reloaded by starting its first
\* record, a start that always succeeds
EditLists == ListsOver({RawA, RawB})
EditResults == {[success |-> Bool(TRUE), message |-> Str("ok")]}

NextEdit ==
  \/ LoaderStep(EditLists)
  \/ processes # <<>> /\ startProcess(processes[1])
  \/ \E id \in IdStrings, res \in EditResults : StartNext(id, res, MaxEditLoads)
  \/ EditorStep

SpecEdit == Init /\ [][NextEdit]_vars

\* the loader alone, on the records that carry the workflows
NextLoad == LoaderStep(TagLists)

SpecLoad == Init /\ [][NextLoad]_vars

\* the formatter alone
NextTime == TimeStep

SpecTime == Init /\ [][NextTime]_vars

\* every start request is answered in the end
StartAnswer(id) ==
  \/ \E res \in StartResults : StartNext(id, res, MaxLoads)
  \/ \E err \in StartErrors : StartError(id, err)

SpecStartFair == SpecStart /\ \A id \in IdStrings : WF_vars(StartAnswer(id))

(***************************************************************************)
(* The starter's properties                                                *)
(***************************************************************************)
\* a startProcess call for an id whose request is pending
C1_DuplicateStartStep ==
  \A process \in Records :
    ( /\ startProcess(process)
      /\ Truthy(process.id)
      /\ startRequests[String(process.id)] > 0 )
    => /\ UNCHANGED <<component, requests>>
       /\ snackBar' = <<>>
\* C1: for every id at most one start request is outstanding, and a
\* startProcess call for an id whose start request is not yet answered sends
\* no request, opens no notification and changes no field of the component.
C1_AtMostOneStart ==
  /\ [](\A id \in IdStrings : startRequests[id] <= 1)
  /\ [][C1_DuplicateStartStep]_vars
C1_Witness ==
  \E id \in IdStrings :
    /\ last = Op("startProcess", id, FALSE)
    /\ startRequests[id] = 1
    /\ \E other \in IdStrings : other # id /\ startRequests[other] = 1

\* C2: the in-flight set holds exactly the id strings of the start requests
\* not yet answered; isStarting tells whether the request of a process is
\* pending, and is false for an absent process.
C2_InFlightExact ==
  /\ startingProcessIds = {id \in IdStrings : startRequests[id] > 0}
  /\ \A process \in Records :
       isStarting(process) <=> startRequests[String(process.id)] > 0
  /\ ~isStarting(NULL)
C2_Witness ==
  /\ last.op \in {"startNext", "startError"}
  /\ \E p, q \in Records : isStarting(p) /\ ~isStarting(q) /\ Truthy(q.id)

\* an answer to a start request, and a start call for an id not in flight
C3_AnswerStep ==
  \A id \in IdStrings :
    /\ StartAnswer(id) => id \notin startingProcessIds'
    /\ \A process \in Records :
         ( /\ startProcess(process)
           /\ String(process.id) = id
           /\ Truthy(process.id)
           /\ startRequests[id] = 0 )
         => startRequests'[id] = 1
\* C3: every answer to a start request (success, refusal or error) takes the
\* id out of the in-flight set, after which startProcess sends again; when
\* every start request is answered in the end, every id leaves the set.
C3_Cleared ==
  /\ [][C3_AnswerStep]_vars
  /\ \A id \in IdStrings :
       (id \in startingProcessIds) ~> (id \notin startingProcessIds)
C3_Witness ==
  /\ last.op = "startError"
  /\ last.id \notin startingProcessIds
  /\ startingProcessIds # {}

\* an answer to a start request, by what it reports
ReportsSuccess(res) == res # NULL /\ "success" \in DOMAIN res /\ res.success = Bool(TRUE)
C4_ReloadStep ==
  \A id \in IdStrings :
    /\ \A res \in StartResults :
         StartNext(id, res, MaxLoads) =>
           /\ listRequests' = listRequests + (IF ReportsSuccess(res) THEN 1 ELSE 0)
           /\ processes' = processes
    /\ \A err \in StartErrors :
         StartError(id, err) =>
           /\ listRequests' = listRequests
           /\ processes' = processes
\* C4: an answer to a start request sends a listing request exactly when it
\* reports success; a refusal or an error sends none; in every case the
\* answer leaves the process list as it was.
C4_ReloadOnlyOnSuccess == [][C4_ReloadStep]_vars
C4_Witness ==
  /\ last.op = "startNext"
  /\ ~last.flag
  /\ listRequests = 0
  /\ processes # <<>>

(***************************************************************************)
(* The filter's properties                                                 *)
(***************************************************************************)
\* the k-th smallest element of a set of numbers
Kth(set, k) == CHOOSE x \in set : Cardinality({y \in set : y <= x}) = k

\* what the getter returns, and a toggleEjecutable step
C10_DisplayedState ==
  LET shown == displayedProcesses
      keep == {i \in DOMAIN processes : processes[i].canExecute}
  IN IF ~showOnlyExecutable THEN shown = processes
     ELSE /\ Len(shown) = Cardinality(keep)
          /\ \A k \in 1..Len(shown) : shown[k] = processes[Kth(keep, k)]
C10_ToggleStep ==
  last'.op = "toggleEjecutable" =>
    /\ showOnlyExecutable' = ~showOnlyExecutable
    /\ UNCHANGED <<phase, processes, loading, error, startingProcessIds,
                   selectedProcess, editedProcess, editedParameters, requests>>
\* C10: displayedProcesses is the list itself when the toggle is off, and
\* when it is on the records with canExecute true, each once and in the
\* order of the list; toggleEjecutable flips the toggle and changes nothing
\* else.
C10_Displayed == []C10_DisplayedState /\ [][C10_ToggleStep]_vars
C10_Witness ==
  /\ last.op = "toggleEjecutable"
  /\ showOnlyExecutable
  /\ Len(processes) = 2
  /\ Len(displayedProcesses) = 1

(***************************************************************************)
(* The editor's properties                                                 *)
(***************************************************************************)
\* the objects the drafts are made of
DraftOids == RecordOids([editedProcess EXCEPT !.parameters = <<>>])
               \cup ParamOids(editedParameters)

\* the drafts against the selected record and the list
C5_NoSharedObject ==
  Truthy(selectedProcess) =>
    DraftOids \cap (RecordOids(selectedProcess) \cup ListOids(processes)) = {}
C5_Step ==
  /\ last'.op = "edit" =>
       /\ selectedProcess' = selectedProcess
       /\ processes' = processes
       /\ RecordValues(selectedProcess') = opened
  /\ processes' # processes => last'.op \in {"listNext", "patchNext"}
\* C5: while an edit session is open, a write to a draft (the name or the
\* description of editedProcess, the name, type or value of an element of
\* editedParameters) leaves selectedProcess and the list as they were; the
\* drafts share no object with the selected record or the list; and only a
\* listing response or a patch response changes the list.
C5_DraftsIsolated == []C5_NoSharedObject /\ [][C5_Step]_vars
C5_Witness ==
  /\ last.op = "edit"
  /\ Truthy(selectedProcess)
  /\ \E i \in DOMAIN processes : processes[i] = selectedProcess
  /\ editedParameters # <<>>
  /\ ParamValues(editedParameters) # ParamValues(selectedProcess.parameters)

\* a successful patch response
C6_Step ==
  \A k \in DOMAIN patchRequests :
    PatchNext(k) =>
      LET sent == patchRequests[k] IN
      /\ Len(processes') = Len(processes)
      /\ \A i \in DOMAIN processes :
           RecordValues(processes'[i]) =
             IF String(processes[i].id) = sent.id
             THEN [RecordValues(processes[i]) EXCEPT
                     !.name = sent.body.name,
                     !.description = sent.body.description,
                     !.parameters = ParamValues(sent.body.parameters)]
             ELSE RecordValues(processes[i])
      /\ selectedProcess' = NULL
      /\ editedProcess' = NULL
      /\ editedParameters' = <<>>
\* C6: a successful patch response replaces the list record with the id the
\* request was sent for by a copy with the name, description and parameters
\* sent and every other field kept, leaves the other records and the order
\* as they were, and closes the edit session with editedParameters empty.
C6_PatchApplied == [][C6_Step]_vars

\* a failed patch request, and the call that sends again
C7_Step ==
  /\ \A k \in DOMAIN patchRequests :
       PatchError(k) =>
         /\ UNCHANGED <<component, listRequests, startRequests>>
         /\ snackBar' = <<>>
  /\ (updateSelectedProcess /\ Truthy(selectedProcess)) =>
       /\ Len(patchRequests') = Len(patchRequests) + 1
       /\ LET new == patchRequests'[Len(patchRequests')] IN
          /\ new.id = String(selectedProcess.id)
          /\ new.body.name = editedProcess.name
          /\ new.body.description = editedProcess.description
          /\ Len(new.body.parameters) = Len(editedParameters)
\* C7: a failed patch request leaves the edit session, the drafts and the
\* list as they were and opens no notification; with a session open,
\* updateSelectedProcess then sends a patch request for the selected id
\* with the drafts.
C7_FailureKeepsSession == [][C7_Step]_vars
C7_Witness ==
  /\ last.op = "patchError"
  /\ Truthy(selectedProcess)
  /\ last.id = String(selectedProcess.id)
  /\ \/ editedProcess.name # selectedProcess.name
     \/ ParamValues(editedParameters) # ParamValues(selectedProcess.parameters)

\* the steps of an edit session that ends with cancelEdit
C8_RecordKept == Truthy(selectedProcess) => RecordValues(selectedProcess) = opened
C8_Step ==
  /\ last'.op \in {"selectProcess", "edit", "cancelEdit"} => processes' = processes
  /\ (last'.op = "cancelEdit" /\ Truthy(selectedProcess)) =>
       /\ selectedProcess' = NULL
       /\ editedProcess' = NULL
       /\ ParamValues(editedParameters') = opened.parameters
       /\ Cardinality(ParamOids(editedParameters')) = Len(editedParameters')
       /\ ParamOids(editedParameters') \cap ListOids(processes') = {}
\* C8: selectProcess, any draft edits, then cancelEdit: the selected record
\* is as it was when it was selected, none of these steps changes the list,
\* the session is closed, and editedParameters holds new objects with the
\* values of the record's parameters.
C8_CancelRestores == []C8_RecordKept /\ [][C8_Step]_vars
C8_Witness ==
  /\ last = Op("cancelEdit", "1", TRUE)
  /\ editedParameters # <<>>
  /\ \E i \in DOMAIN processes :
       /\ String(processes[i].id) = "1"
       /\ ParamValues(processes[i].parameters) = ParamValues(editedParameters)

\* a listing response and a failed listing request
C9_Step ==
  /\ \A res \in EditLists :
       ListNext(res) =>
         /\ ListValues(processes') =
              [i \in DOMAIN res |-> RecordValues(Project(res[i], {}))]
         /\ ListOids(processes') \cap RecordOids(selectedProcess') = {}
         /\ Cardinality(ListOids(processes')) =
              Len(res) + Len(Flatten([i \in DOMAIN res |->
                                       Coalesce(res[i].parameters, Arr(<<>>)).a]))
  /\ ListError =>
       UNCHANGED <<processes, startingProcessIds, selectedProcess, editedProcess,
                   editedParameters>>
\* C9: a listing response makes the list the projection of its records, in
\* their order, out of new objects (nothing of the previous list is kept,
\* a record changed by a patch neither); a failed listing request leaves
\* the list, the in-flight set and the edit session as they were.
C9_ListReplaced == [][C9_Step]_vars
C9_Witness ==
  /\ last = Op("listNext", "", TRUE)
  /\ processes # <<>>
  /\ \A i \in DOMAIN processes :
       \E raw \in RawRecords : RecordValues(processes[i]) = RecordValues(Project(raw, {}))
(***************************************************************************)
(* The projection's properties                                             *)
(***************************************************************************)
\* the spellings of "webhook" among the tag names of the model
WebhookSpellings == {"webhook", "Webhook", "WEBHOOK"}

\* the raw record has a workflow with a tag sequence, and an entry of it is
\* named "webhook" in some spelling
HasWebhookTag(raw) ==
  /\ raw.workflow # NULL
  /\ "tags" \in DOMAIN raw.workflow
  /\ DOMAIN raw.workflow.tags = {"a"}
  /\ \E i \in DOMAIN raw.workflow.tags.a :
       LET t == raw.workflow.tags.a[i] IN
       /\ t # NULL
       /\ "name" \in DOMAIN t
       /\ IsStr(t.name)
       /\ t.name.s \in WebhookSpellings

\* C11: the records of the list are the projections of the records of the
\* last listing response, one for one, and canExecute of each is true exactly
\* when its raw record has a workflow with a tag sequence holding an entry
\* named "webhook" in any case; it is false when the workflow, the tags or
\* every such name is absent, and when the tag sequence is empty.
C11_CanExecute ==
  /\ Len(processes) = Len(listed)
  /\ \A i \in DOMAIN processes :
       /\ processes[i].id = listed[i].id
       /\ processes[i].canExecute <=> HasWebhookTag(listed[i])
C11_Witness ==
  /\ last.op = "listNext"
  /\ \E i, j \in DOMAIN processes :
       /\ processes[i].name = Str("upper") /\ processes[i].canExecute
       /\ processes[j].name = Str("noname") /\ ~processes[j].canExecute

(***************************************************************************)
(* The payload's properties                                                *)
(***************************************************************************)
\* the value sent for a draft value of a parameter of type "number"
C12_Coerced(v) ==
  CASE v = Str("42") -> Num(42)
    [] v = Str("abc") -> Str("abc")
    [] OTHER -> IF Number(v) = NaN THEN v ELSE Number(v)
\* a call of updateSelectedProcess that sends a request
C12_Step ==
  (last'.op = "updateSelectedProcess" /\ last'.flag) =>
    /\ Len(patchRequests') = Len(patchRequests) + 1
    /\ LET sent == patchRequests'[Len(patchRequests')].body.parameters IN
       /\ Len(sent) = Len(editedParameters)
       /\ \A i \in DOMAIN sent :
            /\ sent[i].name = editedParameters[i].name
            /\ sent[i].type = editedParameters[i].type
            /\ sent[i].value = IF editedParameters[i].type = Str("number")
                               THEN C12_Coerced(editedParameters[i].value)
                               ELSE editedParameters[i].value
       /\ ParamOids(sent) \cap ParamOids(editedParameters') = {}
    /\ editedParameters' = editedParameters
\* C12: in the payload of updateSelectedProcess a parameter of type "number"
\* carries the number its draft value coerces to ("42" becomes 42) and the
\* draft value itself when the coercion fails ("abc" stays "abc"); every
\* other value, and every name and type, is sent as it is, in the order of
\* the drafts, and the drafts are left as they were.
C12_PayloadNormalized == [][C12_Step]_vars
C12_Witness ==
  /\ last.op = "updateSelectedProcess"
  /\ last.flag
  /\ editedParameters # <<>>
  /\ editedParameters[1].type = Str("number")
  /\ editedParameters[1].value = Str("abc")
  /\ patchRequests[Len(patchRequests)].body.parameters[1].value = Str("abc")

(***************************************************************************)
(* The notifications' properties                                           *)
(***************************************************************************)
\* the field f of the object o is there and holds a value
Present(o, f) == o # NULL /\ f \in DOMAIN o /\ o[f] # NULL

\* the text for a response
C13_ResponseText(res) ==
  IF Present(res, "message") THEN res.message
  ELSE IF Present(res, "success") /\ res.success = Bool(TRUE)
       THEN Str("Proceso iniciado")
       ELSE Str("No se pudo iniciar el proceso")

\* the text for an error
C13_ErrorText(err) ==
  IF Present(err, "error") /\ ~IsStr(err.error) /\ Present(err.error, "message")
  THEN err.error.message
  ELSE IF Present(err, "message") THEN err.message
  ELSE IF Present(err, "statusText") THEN err.statusText
  ELSE Str("Error de red")

\* an answer to a start request, and a startProcess call that sends nothing
C13_Step ==
  /\ \A id \in IdStrings :
       /\ \A res \in StartResults :
            StartNext(id, res, MaxLoads) => snackBar' = <<C13_ResponseText(res)>>
       /\ \A err \in StartErrors :
            StartError(id, err) => snackBar' = <<C13_ErrorText(err)>>
  /\ (last'.op = "startProcess" /\ ~last'.flag) => snackBar' = <<>>
  /\ last'.op \in {"startNext", "startError"} => Len(snackBar') = 1
\* C13: every answer to a start request opens exactly one notification: for
\* a response the server's message when there is one, else "Proceso
\* iniciado" when it reports success and "No se pudo iniciar el proceso"
\* when not; for an error the message of its body, else its own message,
\* else its status text, else "Error de red".  A startProcess call that
\* sends nothing opens none.
C13_OneNotification == [][C13_Step]_vars
C13_Witness ==
  /\ last.op = "startNext"
  /\ ~last.flag
  /\ snackBar = <<Str("No se pudo iniciar el proceso")>>
  /\ startingProcessIds # {}

(***************************************************************************)
(* The formatter's properties                                              *)
(***************************************************************************)
\* the text for d whole seconds elapsed
C14_Text(d) ==
  LET m == d \div 60
      h == m \div 60
      n == h \div 24
  IN IF d < 60 THEN "Hace " \o ToString(d) \o " seg"
     ELSE IF m < 60 THEN "Hace " \o ToString(m) \o " min"
     ELSE IF h < 24 THEN "Hace " \o ToString(h) \o " h"
     ELSE "Hace " \o ToString(n) \o " d"

\* a call of formatTimeAgo
C14_Step ==
  \A isoDate \in IsoDates :
    TimeAgo(isoDate) =>
      /\ isoDate = NULL => timeAgo' = Str("")
      /\ DOMAIN isoDate = {"t"} =>
           /\ timeAgo' = Str(C14_Text((now - isoDate.t) \div 1000))
           /\ now - isoDate.t = 90000 => timeAgo' = Str("Hace 1 min")
           /\ now - isoDate.t = 59999 => timeAgo' = Str("Hace 59 seg")
           /\ now - isoDate.t = 3600000 => timeAgo' = Str("Hace 1 h")
           /\ now - isoDate.t = 86400000 => timeAgo' = Str("Hace 1 d")
\* C14: formatTimeAgo returns "" for a null timestamp; for a timestamp d
\* whole seconds before now it returns "Hace d seg" when d < 60, "Hace m
\* min" with m = floor(d/60) when m < 60, "Hace h h" with h = floor(m/60)
\* when h < 24, and "Hace n d" with n = floor(h/24) otherwise; 90 seconds
\* in the past gives "Hace 1 min".
C14_TimeAgo == [][C14_Step]_vars
C14_Witness ==
  /\ last.op = "formatTimeAgo"
  /\ now = 90000
  /\ timeAgo = Str("Hace 1 min")

(***************************************************************************)
(* The patch response against what happened while it was pending           *)
(***************************************************************************)
\* the response leaves the records of every other process as they were
C15_OthersKept(sent) ==
  \A i \in DOMAIN processes :
    String(processes[i].id) # sent.id =>
      RecordValues(processes'[i]) = RecordValues(processes[i])
\* the response updates the record the request was sent for
C15_Applied(sent) ==
  \A i \in DOMAIN processes :
    String(processes[i].id) = sent.id =>
      /\ processes'[i].name = sent.body.name
      /\ processes'[i].description = sent.body.description
      /\ ParamValues(processes'[i].parameters) = ParamValues(sent.body.parameters)
\* the response leaves an edit session on another process open
C15_OtherSessionKept(sent) ==
  (selectedProcess # NULL /\ String(selectedProcess.id) # sent.id) =>
    /\ selectedProcess' = selectedProcess
    /\ editedProcess' = editedProcess
    /\ editedParameters' = editedParameters
\* the response closes the edit session on the process of the request
C15_OwnSessionClosed(sent) ==
  (selectedProcess # NULL /\ String(selectedProcess.id) = sent.id) =>
    /\ selectedProcess' = NULL
    /\ editedProcess' = NULL
C15_Step ==
  \A k \in DOMAIN patchRequests :
    PatchNext(k) =>
      /\ Len(processes') = Len(processes)
      /\ C15_OthersKept(patchRequests[k])
      /\ C15_Applied(patchRequests[k])
      /\ C15_OtherSessionKept(patchRequests[k])
      /\ C15_OwnSessionClosed(patchRequests[k])
\* C15: a successful patch response updates the record of the id the
\* request was sent for, with the name, description and parameters of the
\* request's body, and closes the edit session that sent it, whatever
\* happened while the request was pending; it modifies no record of another
\* process, closes no edit session opened on another process, and applies
\* the update when the selection was cleared.
C15_ResponseForItsRequest == [][C15_Step]_vars

(***************************************************************************)
(* Listing requests outstanding together                                   *)
(***************************************************************************)
\* the list is what the last listing response projects to
C16_LastArrived == ListValues(processes) = ListValues(ProjectAll(listed, {}))
\* a successful start answer asks for the list whatever is outstanding; a
\* listing response answers one request and becomes the last one arrived,
\* whatever is outstanding
C16_Step ==
  /\ \A id \in IdStrings, res \in StartResults :
       (StartNext(id, res, MaxLoads) /\ ReportsSuccess(res)) =>
         listRequests' = listRequests + 1
  /\ \A res \in RawLists :
       ListNext(res) =>
         /\ listRequests' = listRequests - 1
         /\ listed' = res
         /\ ListValues(processes') = ListValues(ProjectAll(res, {}))
  /\ last'.op # "listNext" => listed' = listed /\ processes' = processes
\* C16: listing requests are not deduplicated and not ordered: the initial
\* load and the reloads of successful starts are outstanding together, every
\* response replaces the list when it arrives, and in every state the list
\* is the projection of the listing response that arrived last.
C16_LastResponseWins == []C16_LastArrived /\ [][C16_Step]_vars
C16_Witness ==
  /\ last.op = "listNext"
  /\ listRequests = 1
  /\ startingProcessIds # {}
  /\ listed # <<>>
  /\ ListValues(processes) = ListValues(ProjectAll(listed, {}))

(***************************************************************************)
(* The edit session's fields                                               *)
(***************************************************************************)
\* the draft of the record is there exactly when a record is selected
C17_DraftWithSelection == (editedProcess # NULL) <=> (selectedProcess # NULL)
\* cancelEdit and updateSelectedProcess with no selected process
C17_Step ==
  /\ (cancelEdit /\ selectedProcess = NULL) =>
       /\ UNCHANGED <<component, requests>>
       /\ snackBar' = <<>>
  /\ (updateSelectedProcess /\ selectedProcess = NULL) =>
       /\ UNCHANGED <<component, requests>>
       /\ snackBar' = <<>>
\* C17: in every state editedProcess is present exactly when
\* selectedProcess is present; cancelEdit and updateSelectedProcess called
\* with no selected process send no request and change no field.
C17_SessionFields == []C17_DraftWithSelection /\ [][C17_Step]_vars
C17_Witness ==
  /\ last = Op("cancelEdit", "", FALSE)
  /\ selectedProcess = NULL
  /\ editedProcess = NULL
  /\ processes # <<>>
  /\ patchRequests # <<>>

====
